---- MODULE Spec2Model ----
(***************************************************************************)
(* StreamingUploadFileWrapper                                              *)
(* (googlecloudsdk/command_lib/storage/streaming_upload_file_wrapper.py):  *)
(* limited seeking within a non-seekable stream by buffering the most      *)
(* recently read bytes in a deque of chunks.                               *)
(*                                                                         *)
(* Bytes are modelled as naturals; the byte at absolute offset i of the    *)
(* underlying stream has value i, so a returned byte names the offset it   *)
(* came from.  The underlying stream is a blocking reader: read(n) returns *)
(* min(n, remaining) bytes and read(-1) returns every remaining byte.      *)
(***************************************************************************)
EXTENDS Integers, Sequences, FiniteSets, TLC

\* ---------------------------------------------------------------- bounds
MaxStreamLen == 5
MaxBufferSize == 3
MaxReadSize == 4
MaxSeekOffset == 5
MaxDrift == 1

MaxWhence == 2

\* os.SEEK_SET and os.SEEK_END; every other whence is unsupported
SEEK_SET == 0
SEEK_END == 2

StreamLens == 0..MaxStreamLen
BufferSizes == 1..MaxBufferSize
ReadSizes == (-1)..MaxReadSize
SeekOffsets == (-1)..MaxSeekOffset
Whences == 0..MaxWhence

VARIABLES
  stream,           \* content of the underlying stream (self._stream)
  stream_pos,       \* read cursor of the underlying stream
  max_buffer_size,  \* self._max_buffer_size
  buffer,           \* self._buffer: deque of chunks
  buffer_start,     \* self._buffer_start
  buffer_end,       \* self._buffer_end
  position,         \* self._position
  pc,               \* "idle", or "drain" inside the loop of seek(.., SEEK_END)
  drain_offset,     \* the offset argument of the seek that is draining
  last,             \* the last call: arguments, outcome, returned bytes
  seeked,           \* some seek has been called since construction
  delivered         \* bytes returned by the reads so far, while ~seeked

vars == <<stream, stream_pos, max_buffer_size, buffer, buffer_start,
          buffer_end, position, pc, drain_offset, last, seeked, delivered>>

wrapper == <<buffer, buffer_start, buffer_end, position>>

\* ------------------------------------------------------- python helpers
Min(a, b) == IF a < b THEN a ELSE b
Max(a, b) == IF a > b THEN a ELSE b

\* index normalisation of a python slice bound on a sequence of length n
SliceIndex(i, n) == IF i < 0 THEN Max(i + n, 0) ELSE Min(i, n)

\* data[start:stop]
PySlice(data, start, stop) ==
  LET s == SliceIndex(start, Len(data))
      e == SliceIndex(stop, Len(data))
  IN IF s >= e THEN <<>> ELSE SubSeq(data, s + 1, e)

\* mutant: data[:-start], the leading bytes instead of the trailing ones
PySliceFrom_Leading(data, start) ==
  SubSeq(data, 1, Len(data) - SliceIndex(start, Len(data)))

\* data[start:]
PySliceFrom(data, start) ==
  SubSeq(data, SliceIndex(start, Len(data)) + 1, Len(data))

\* the bytes of the stream at absolute offsets [from, to)
StreamBytes(s, from, to) == SubSeq(s, from + 1, to)

\* self._stream.read(n): all remaining bytes for n < 0, else up to n bytes
StreamRead(s, spos, n) ==
  IF n < 0 THEN StreamBytes(s, spos, Len(s))
  ELSE StreamBytes(s, spos, Min(spos + n, Len(s)))

\* ------------------------------------------------------ _read_from_buffer
\* line 92: the block ends at or after the read position
BlockCovers(position_in_buffer, data, pos) ==
  position_in_buffer + Len(data) >= pos

\* lines 93-95: the number of bytes taken from a covering block
BlockReadSize(position_in_buffer, data, pos, bytes_remaining) ==
  Min(Len(data) - (pos - position_in_buffer), bytes_remaining)

\* lines 96-97: data[offset_from_position:offset_from_position + read_size]
BlockSlice(position_in_buffer, data, pos, read_size) ==
  PySlice(data, pos - position_in_buffer, (pos - position_in_buffer) + read_size)

\* lines 91-100: the loop over the blocks, from block i on.  st.bound tells
\* whether the local read_size has been assigned; line 100 reads it in every
\* iteration and raises UnboundLocalError when it has not.
RECURSIVE ScanBuffer(_, _, _)
ScanBuffer(buf, i, st) ==
  IF i > Len(buf) \/ st.raised THEN st
  ELSE LET data == buf[i]
           hit == BlockCovers(st.position_in_buffer, data, st.position)
           read_size == IF hit
                        THEN BlockReadSize(st.position_in_buffer, data,
                                           st.position, st.bytes_remaining)
                        ELSE st.read_size
           bound == hit \/ st.bound
       IN ScanBuffer(buf, i + 1,
            [position_in_buffer |-> st.position_in_buffer + Len(data),
             position |-> IF bound THEN st.position + read_size
                          ELSE st.position,
             bytes_remaining |-> IF hit THEN st.bytes_remaining - read_size
                                 ELSE st.bytes_remaining,
             read_size |-> read_size,
             bound |-> bound,
             buffered_data |-> IF hit
                               THEN st.buffered_data \o
                                    BlockSlice(st.position_in_buffer, data,
                                               st.position, read_size)
                               ELSE st.buffered_data,
             raised |-> ~bound])

\* lines 86-101: [data, position, raised]
ReadFromBuffer(buf, bstart, bend, pos, amount) ==
  IF pos < bend
  THEN LET st == ScanBuffer(buf, 1,
                   [position_in_buffer |-> bstart, position |-> pos,
                    bytes_remaining |-> amount, read_size |-> 0,
                    bound |-> FALSE, buffered_data |-> <<>>,
                    raised |-> FALSE])
       IN [data |-> st.buffered_data, position |-> st.position,
           raised |-> st.raised]
  ELSE [data |-> <<>>, position |-> pos, raised |-> FALSE]

\* ------------------------------------------------------------ _store_data
\* mutant: the eviction starts one byte late
WindowTooLarge_OffByOne(bstart, bend, max) == bend - bstart > max + 1

\* line 122: the window is larger than the maximum
WindowTooLarge(bstart, bend, max) == bend - bstart > max

\* mutant: the refill is one byte short
RefillAmount_OneShort(bstart, bend, max) == max - (bend - bstart) - 1

\* lines 126-127
RefillAmount(bstart, bend, max) == max - (bend - bstart)

\* lines 122-130: the eviction loop; popleft of an empty deque raises.
\* shorter records that every chunk re-inserted at line 129 was strictly
\* shorter than the chunk removed at line 123.
RECURSIVE Evict(_, _, _, _)
Evict(buf, bstart, bend, max) ==
  IF ~WindowTooLarge(bstart, bend, max)
  THEN [buffer |-> buf, buffer_start |-> bstart, buffer_end |-> bend,
        raised |-> FALSE, shorter |-> TRUE]
  ELSE IF buf = <<>>
  THEN [buffer |-> buf, buffer_start |-> bstart, buffer_end |-> bend,
        raised |-> TRUE, shorter |-> TRUE]
  ELSE LET oldest_data == Head(buf)
           start1 == bstart + Len(oldest_data)
           refill_amount == RefillAmount(start1, bend, max)
       IN IF oldest_data # <<>> /\ refill_amount >= 1
          THEN LET rest == Evict(<<PySliceFrom(oldest_data, -refill_amount)>>
                                   \o Tail(buf),
                                 start1 - refill_amount, bend, max)
               IN [rest EXCEPT !.shorter =
                     rest.shorter /\ refill_amount < Len(oldest_data)]
          ELSE Evict(Tail(buf), start1, bend, max)

\* mutant: the end of the window is set to the length of the new chunk
StoreData_ResetEnd(buf, bstart, bend, max, data) ==
  IF data # <<>>
  THEN Evict(Append(buf, data), bstart, Len(data), max)
  ELSE [buffer |-> buf, buffer_start |-> bstart, buffer_end |-> bend,
        raised |-> FALSE, shorter |-> TRUE]

\* lines 118-130
StoreData(buf, bstart, bend, max, data) ==
  IF data # <<>>
  THEN Evict(Append(buf, data), bstart, bend + Len(data), max)
  ELSE [buffer |-> buf, buffer_start |-> bstart, buffer_end |-> bend,
        raised |-> FALSE, shorter |-> TRUE]

\* -------------------------------------------------------------------- read
\* line 142
ReadAllBytes(is_none, size) == is_none \/ size < 0

\* lines 143-147: the amount asked of the buffer pass
BufferPassAmount(is_none, size, max) ==
  IF ReadAllBytes(is_none, size) THEN max ELSE size

\* lines 152-157: the sizes passed to self._stream.read, at most one
StreamRequests(is_none, size, bytes_remaining) ==
  IF ReadAllBytes(is_none, size) THEN <<-1>>
  ELSE IF bytes_remaining # 0 THEN <<bytes_remaining>>
  ELSE <<>>

\* mutant: the cursor is not advanced over newly read data
AdvancePosition_NoAdvance(pos, new_data) == pos

\* line 159
AdvancePosition(pos, new_data) == pos + Len(new_data)

\* lines 142-162, on the current state: the state after the call, the
\* returned bytes, the exception raised ("" for none) and the requests made
\* to the underlying stream
DoRead(is_none, size) ==
  LET fromBuf == ReadFromBuffer(buffer, buffer_start, buffer_end, position,
                                BufferPassAmount(is_none, size, max_buffer_size))
      data == fromBuf.data
      bytes_remaining ==
        BufferPassAmount(is_none, size, max_buffer_size) - Len(data)
      requests == StreamRequests(is_none, size, bytes_remaining)
      new_data == IF requests = <<>> THEN <<>>
                  ELSE StreamRead(stream, stream_pos, requests[1])
      stored == StoreData(buffer, buffer_start, buffer_end, max_buffer_size,
                          new_data)
  IN IF fromBuf.raised
     THEN [raised |-> "UnboundLocalError", returned |-> <<>>,
           requests |-> <<>>, position |-> position, stream_pos |-> stream_pos,
           buffer |-> buffer, buffer_start |-> buffer_start,
           buffer_end |-> buffer_end]
     ELSE [raised |-> IF stored.raised THEN "IndexError" ELSE "",
           returned |-> data \o new_data,
           requests |-> requests,
           position |-> AdvancePosition(fromBuf.position, new_data),
           stream_pos |-> stream_pos + Len(new_data),
           buffer |-> stored.buffer, buffer_start |-> stored.buffer_start,
           buffer_end |-> stored.buffer_end]

\* the record of a call
Call(op, arg, is_none, whence, result, returned, requests) ==
  [op |-> op, arg |-> arg, is_none |-> is_none, whence |-> whence,
   result |-> result, returned |-> returned, requests |-> requests]

\* ------------------------------------------------------------------- Init
\* lines 42-48
Init ==
  /\ \E len \in StreamLens : stream = [i \in 1..len |-> i - 1]
  /\ stream_pos = 0
  /\ max_buffer_size \in BufferSizes
  /\ buffer = <<>>
  /\ buffer_start = 0
  /\ position = 0
  /\ buffer_end = 0
  /\ pc = "idle"
  /\ drain_offset = 0
  /\ last = Call("init", 0, FALSE, SEEK_SET, "ok", <<>>, <<>>)
  /\ seeked = FALSE
  /\ delivered = <<>>

\* ---------------------------------------------------------------- actions
\* read(size): size None is is_none; size omitted is the default -1
Read(is_none, size) ==
  /\ pc = "idle"
  /\ LET r == DoRead(is_none, size)
     IN /\ position' = r.position
        /\ stream_pos' = r.stream_pos
        /\ buffer' = r.buffer
        /\ buffer_start' = r.buffer_start
        /\ buffer_end' = r.buffer_end
        /\ last' = Call("read", size, is_none, SEEK_SET,
                        IF r.raised = "" THEN "ok" ELSE r.raised,
                        r.returned, r.requests)
        /\ delivered' = IF seeked \/ r.raised # "" THEN delivered
                        ELSE delivered \o r.returned
  /\ UNCHANGED <<stream, max_buffer_size, pc, drain_offset, seeked>>

\* ------------------------------------------------------------------- seek
\* mutant: the lower bound is the stream origin, not the window start
InWindow_FromOrigin(offset, bstart, bend) == ~(offset < 0 \/ offset > bend)

\* line 167, negated: the offset lies in the buffered window
InWindow(offset, bstart, bend) == ~(offset < bstart \/ offset > bend)

\* mutant: the offset check is off by one
EndOffsetTooLarge_OffByOne(offset, max) == offset > max + 1

\* line 175: the SEEK_END offset cannot be buffered
EndOffsetTooLarge(offset, max) == offset > max

\* line 182
EndPosition(pos, offset) == pos - offset

\* mutant: every whence but SEEK_END is taken as SEEK_SET
WhenceIsSet_NotEnd(whence) == whence # SEEK_END

\* line 166
WhenceIsSet(whence) == whence = SEEK_SET

\* line 174
WhenceIsEnd(whence) == whence = SEEK_END

\* lines 166-173: seek(offset) / seek(offset, os.SEEK_SET)
SeekSet(offset, whence) ==
  /\ pc = "idle"
  /\ WhenceIsSet(whence)
  /\ IF InWindow(offset, buffer_start, buffer_end)
     THEN /\ position' = offset
          /\ last' = Call("seek", offset, FALSE, whence, "ok", <<>>, <<>>)
     ELSE /\ position' = position
          /\ last' = Call("seek", offset, FALSE, whence, "Error", <<>>, <<>>)
  /\ seeked' = TRUE
  /\ delivered' = <<>>
  /\ UNCHANGED <<stream, stream_pos, max_buffer_size, buffer, buffer_start,
                 buffer_end, pc, drain_offset>>

\* lines 174-178: seek(offset, os.SEEK_END) up to the entry of the drain loop.
\* The cursor drifts without bound under repeated end-relative seeks, so the
\* call is explored only from cursors within MaxDrift of the stream.
SeekEnd(offset, whence) ==
  /\ pc = "idle"
  /\ ~WhenceIsSet(whence)
  /\ WhenceIsEnd(whence)
  /\ position >= -MaxDrift
  /\ position <= Len(stream) + MaxDrift
  /\ IF EndOffsetTooLarge(offset, max_buffer_size)
     THEN /\ last' = Call("seek", offset, FALSE, whence, "Error", <<>>, <<>>)
          /\ UNCHANGED <<pc, drain_offset>>
     ELSE /\ last' = Call("seek", offset, FALSE, whence, "running", <<>>, <<>>)
          /\ pc' = "drain"
          /\ drain_offset' = offset
  /\ seeked' = TRUE
  /\ delivered' = <<>>
  /\ UNCHANGED <<stream, stream_pos, max_buffer_size, buffer, buffer_start,
                 buffer_end, position>>

\* lines 180-182: one evaluation of the loop condition
\* self.read(self._max_buffer_size); a falsy result leaves the loop and line
\* 182 moves the cursor, an exception of the read ends the seek call.
DrainStep ==
  /\ pc = "drain"
  /\ LET r == DoRead(FALSE, max_buffer_size)
         done == r.raised = "" /\ r.returned = <<>>
     IN /\ position' = IF done THEN EndPosition(r.position, drain_offset)
                       ELSE r.position
        /\ stream_pos' = r.stream_pos
        /\ buffer' = r.buffer
        /\ buffer_start' = r.buffer_start
        /\ buffer_end' = r.buffer_end
        /\ pc' = IF done \/ r.raised # "" THEN "idle" ELSE "drain"
        /\ last' = [last EXCEPT
                      !.result = IF r.raised # "" THEN r.raised
                                 ELSE IF done THEN "ok" ELSE "running",
                      !.requests = last.requests \o r.requests]
  /\ UNCHANGED <<stream, max_buffer_size, drain_offset, seeked, delivered>>

\* lines 183-186: any other whence
SeekInvalid(offset, whence) ==
  /\ pc = "idle"
  /\ ~WhenceIsSet(whence)
  /\ ~WhenceIsEnd(whence)
  /\ last' = Call("seek", offset, FALSE, whence, "Error", <<>>, <<>>)
  /\ seeked' = TRUE
  /\ delivered' = <<>>
  /\ UNCHANGED <<stream, stream_pos, max_buffer_size, buffer, buffer_start,
                 buffer_end, position, pc, drain_offset>>

\* lines 164-186
Seek(offset, whence) ==
  \/ SeekSet(offset, whence)
  \/ SeekEnd(offset, whence)
  \/ SeekInvalid(offset, whence)

ReadCall == \E size \in ReadSizes : Read(FALSE, size)
ReadNone == Read(TRUE, 0)
SeekCall == \E offset \in SeekOffsets, whence \in Whences : Seek(offset, whence)

Next ==
  \/ ReadCall
  \/ ReadNone
  \/ SeekCall
  \/ DrainStep

Spec == Init /\ [][Next]_vars

\* the drain loop is sequential code of one call: once entered it runs on
FairSpec == Spec /\ WF_vars(DrainStep)

\* ================================================================ claims
StreamLen == Len(stream)

\* the step is a completed call of read
ReadStep == pc = "idle" /\ pc' = "idle" /\ last'.op = "read"

\* the step is a call of seek with the given whence, issued while idle
SeekStep(whence) == pc = "idle" /\ last'.op = "seek" /\ last'.whence = whence

\* the last completed call is a successful seek with the given whence
SeekDone(whence) ==
  pc = "idle" /\ last.op = "seek" /\ last.whence = whence /\ last.result = "ok"

\* C1: replay idempotence.  After a successful seek(offset, SEEK_SET) an
\* immediately following read(buffer_end - offset) completes and returns the
\* stream bytes at the absolute offsets [offset, buffer_end).
C1_ReplayIdempotence ==
  [][(/\ SeekDone(SEEK_SET)
      /\ ReadStep
      /\ ~last'.is_none
      /\ last'.arg = buffer_end - position)
     => (/\ last'.result = "ok"
         /\ last'.returned = StreamBytes(stream, position, buffer_end))]_vars

\* C2: without any seek, the concatenation of the bytes returned by the reads
\* is the prefix of the stream of that length, and tell() is the number of
\* bytes consumed from the underlying stream.
C2_SequentialReads ==
  ~seeked => /\ delivered = StreamBytes(stream, 0, Len(delivered))
             /\ position = Len(delivered)
             /\ position = stream_pos

C2_Witness ==
  /\ ~seeked
  /\ last.op = "read"
  /\ last.returned # <<>>
  /\ Len(delivered) > Len(last.returned)
  /\ Len(delivered) >= 3

\* C3: the buffered window never exceeds max_buffer_size.
C3_WindowBounded == buffer_end - buffer_start <= max_buffer_size

\* one underlying read returned more than max_buffer_size bytes, so the chunk
\* it appended was split by the eviction
C3_Witness ==
  /\ ~seeked
  /\ last.op = "read"
  /\ Len(last.requests) = 1
  /\ Len(last.returned) > max_buffer_size
  /\ buffer_start > 0
  /\ Len(buffer) = 1
  /\ buffer_end - buffer_start = max_buffer_size

\* C4: seek(offset, SEEK_SET) outside [buffer_start, buffer_end] fails and
\* changes neither the wrapper nor the underlying stream; inside the window
\* it succeeds and changes the position, to offset, and nothing else.
C4_SeekSet ==
  [][SeekStep(SEEK_SET)
     => IF last'.arg < buffer_start \/ last'.arg > buffer_end
        THEN /\ last'.result = "Error"
             /\ pc' = "idle"
             /\ UNCHANGED <<wrapper, stream_pos>>
        ELSE /\ last'.result = "ok"
             /\ pc' = "idle"
             /\ position' = last'.arg
             /\ UNCHANGED <<buffer, buffer_start, buffer_end, stream_pos>>]_vars

\* a seek below an evicted window start was rejected
C4_Witness ==
  /\ pc = "idle"
  /\ last.op = "seek"
  /\ last.whence = SEEK_SET
  /\ last.result = "Error"
  /\ last.arg >= 0
  /\ last.arg < buffer_start
  /\ position = buffer_end

\* C5: a successful seek(offset, SEEK_END) consumes the underlying stream to
\* its end and leaves tell() = L - offset; seek(0, SEEK_END) leaves
\* tell() = L and buffer_end = L.
C5_SeekEndPosition ==
  SeekDone(SEEK_END)
  => /\ stream_pos = StreamLen
     /\ position = StreamLen - last.arg
     /\ (last.arg = 0 => buffer_end = StreamLen)

\* C6: after a successful seek(N, SEEK_END) with 0 <= N <= min(max_buffer_size,
\* L), a following read(N) or read to end completes, returns the last N bytes
\* of the stream and leaves tell() = L.  The seek is taken to have drained the
\* stream and left tell() = L - N.
C6_RewindBeforeEof ==
  [][(/\ SeekDone(SEEK_END)
      /\ last.arg >= 0
      /\ last.arg <= Min(max_buffer_size, StreamLen)
      /\ position = StreamLen - last.arg
      /\ stream_pos = StreamLen
      /\ ReadStep
      /\ (ReadAllBytes(last'.is_none, last'.arg) \/ last'.arg = last.arg))
     => (/\ last'.result = "ok"
         /\ last'.returned = StreamBytes(stream, StreamLen - last.arg, StreamLen)
         /\ position' = StreamLen)]_vars

\* C7: after every completed call position <= buffer_end.
C7_PositionAtMostBufferEnd == pc = "idle" => position <= buffer_end

\* C8: seek(offset, SEEK_END) with offset > max_buffer_size fails before any
\* read: the wrapper and the underlying stream are unchanged.
C8_SeekEndTooFar ==
  [][(SeekStep(SEEK_END) /\ last'.arg > max_buffer_size)
     => (/\ last'.result = "Error"
         /\ pc' = "idle"
         /\ UNCHANGED <<wrapper, stream_pos>>)]_vars

\* the rejected seek had a stream left to drain and a position to move
C8_Witness ==
  /\ pc = "idle"
  /\ last.op = "seek"
  /\ last.whence = SEEK_END
  /\ last.arg > max_buffer_size
  /\ last.result = "Error"
  /\ stream_pos < StreamLen
  /\ buffer # <<>>

\* C9: seek with a whence other than SEEK_SET and SEEK_END fails for every
\* offset and changes neither the wrapper nor the underlying stream.
C9_InvalidWhence ==
  [][(pc = "idle" /\ last'.op = "seek"
      /\ last'.whence # SEEK_SET /\ last'.whence # SEEK_END)
     => (/\ last'.result = "Error"
         /\ pc' = "idle"
         /\ UNCHANGED <<wrapper, stream_pos>>)]_vars

\* an unsupported seek was rejected with an offset inside the window and
\* data left in the stream
C9_Witness ==
  /\ pc = "idle"
  /\ last.op = "seek"
  /\ last.whence # SEEK_SET
  /\ last.whence # SEEK_END
  /\ last.result = "Error"
  /\ last.arg >= buffer_start
  /\ last.arg < position
  /\ stream_pos < StreamLen

\* C10: read to end (size omitted, None or negative) from a position inside
\* the window returns every stream byte from position to the end of the
\* stream, issues exactly one unbounded read on the underlying stream and
\* leaves tell() = L.
C10_ReadToEnd ==
  [][(/\ buffer_start <= position
      /\ position <= buffer_end
      /\ ReadStep
      /\ ReadAllBytes(last'.is_none, last'.arg))
     => (/\ last'.result = "ok"
         /\ last'.returned = StreamBytes(stream, position, StreamLen)
         /\ last'.requests = <<-1>>
         /\ position' = StreamLen)]_vars

\* C11: the window is maximal: after every completed call it holds the most
\* recent max_buffer_size bytes consumed from the stream, or all of them when
\* fewer were consumed.
C11_WindowMaximal ==
  pc = "idle" => buffer_end - buffer_start = Min(max_buffer_size, buffer_end)

\* a read larger than the window came after earlier reads: the eviction
\* removed the older chunks and split the new one
C11_Witness ==
  /\ pc = "idle"
  /\ ~seeked
  /\ last.op = "read"
  /\ Len(delivered) > Len(last.returned)
  /\ Len(last.returned) > max_buffer_size
  /\ Len(buffer) = 1
  /\ buffer_start = buffer_end - max_buffer_size

\* the chunks of the deque, concatenated in order
RECURSIVE Concatenated(_)
Concatenated(buf) ==
  IF buf = <<>> THEN <<>> ELSE Head(buf) \o Concatenated(Tail(buf))

\* C13: the buffered chunks, concatenated in deque order, are the stream
\* bytes at the absolute offsets [buffer_start, buffer_end), and their
\* lengths add up to buffer_end - buffer_start.
C13_BufferIsStreamWindow ==
  /\ Len(Concatenated(buffer)) = buffer_end - buffer_start
  /\ 0 <= buffer_start
  /\ buffer_end <= StreamLen
  /\ Concatenated(buffer) = StreamBytes(stream, buffer_start, buffer_end)

\* a chunk longer than the window was appended and split: what is kept is
\* the trailing part of what the read returned
C13_Witness ==
  /\ pc = "idle"
  /\ last.op = "read"
  /\ last.result = "ok"
  /\ Len(last.requests) = 1
  /\ Len(last.returned) > max_buffer_size
  /\ buffer_start >= 2
  /\ Len(buffer) = 1
  /\ Len(buffer[1]) = max_buffer_size
  /\ buffer[1] = PySliceFrom(last.returned, -max_buffer_size)

\* C12: read(size) with 0 <= size <= buffer_end - position, from a position
\* inside the window, returns the size bytes at [position, position + size)
\* from the buffer, issues no read on the underlying stream, leaves the
\* buffer and its bounds unchanged and advances tell() by size.
C12_ReplayFromBuffer ==
  [][(/\ ReadStep
      /\ ~last'.is_none
      /\ buffer_start <= position
      /\ 0 <= last'.arg
      /\ last'.arg <= buffer_end - position)
     => (/\ last'.result = "ok"
         /\ last'.returned = StreamBytes(stream, position, position + last'.arg)
         /\ last'.requests = <<>>
         /\ UNCHANGED <<buffer, buffer_start, buffer_end, stream_pos>>
         /\ position' = position + last'.arg)]_vars

\* C14: stitching.  From buffer_start <= position < buffer_end, read(size)
\* with size > buffer_end - position returns the buffered bytes
\* [position, buffer_end) followed by the next bytes of the underlying
\* stream, asks the stream for exactly size - (buffer_end - position) bytes,
\* and returns at most size bytes, exactly size when the stream has them.
C14_Stitching ==
  [][(/\ ReadStep
      /\ ~last'.is_none
      /\ buffer_start <= position
      /\ position < buffer_end
      /\ last'.arg > buffer_end - position)
     => LET wanted == last'.arg - (buffer_end - position)
        IN /\ last'.result = "ok"
           /\ last'.requests = <<wanted>>
           /\ last'.returned =
                StreamBytes(stream, position, buffer_end) \o
                StreamBytes(stream, stream_pos,
                            Min(stream_pos + wanted, StreamLen))
           /\ Len(last'.returned) <= last'.arg
           /\ (StreamLen - stream_pos >= wanted
               => Len(last'.returned) = last'.arg)]_vars

\* C15: after every completed call position >= buffer_start.
C15_PositionAtLeastBufferStart == pc = "idle" => position >= buffer_start

\* C16: every read that returns advances tell() by the length of the bytes
\* it returned.
C16_TellAdvancesByReturned ==
  [][(ReadStep /\ last'.result = "ok")
     => position' = position + Len(last'.returned)]_vars

\* C17: seek(offset, SEEK_END) with offset <= max_buffer_size returns, and
\* its drain loop ends only once the underlying stream has returned an empty
\* read: when the call is over it has not raised, the stream was asked and
\* is exhausted.
C17_DrainEndsAtEof ==
  (/\ pc = "idle"
   /\ last.op = "seek"
   /\ last.whence = SEEK_END
   /\ last.arg <= max_buffer_size)
  => (/\ last.result = "ok"
      /\ last.requests # <<>>
      /\ stream_pos = StreamLen)

\* whatever the next read of the underlying stream returns, storing it
\* re-inserts only chunks strictly shorter than the chunk removed
SplitsShorter ==
  \A n \in ReadSizes \ {0} :
    StoreData(buffer, buffer_start, buffer_end, max_buffer_size,
              StreamRead(stream, stream_pos, n)).shorter

\* C18: the window only slides forward.  buffer_start and buffer_end never
\* decrease, a seek(offset, SEEK_SET) to an offset below buffer_start is
\* rejected, and a chunk re-inserted by the eviction is strictly shorter than
\* the chunk removed.
C18_WindowSlidesForward ==
  /\ [][/\ buffer_start' >= buffer_start
        /\ buffer_end' >= buffer_end
        /\ (SeekStep(SEEK_SET) /\ last'.arg < buffer_start)
           => (last'.result = "Error" /\ position' = position)]_vars
  /\ []SplitsShorter

\* the window slid past the origin, holds several chunks, and a seek to the
\* last evicted offset was rejected
C18_Witness ==
  /\ pc = "idle"
  /\ last.op = "seek"
  /\ last.whence = SEEK_SET
  /\ last.result = "Error"
  /\ last.arg = buffer_start - 1
  /\ last.arg >= 0
  /\ Len(buffer) >= 2

====
